---- MODULE Spec2Model ----
(***************************************************************************)
(* Model of spacy_huggingface_hub/push_cli.py: synthesis of the model card *)
(* (_create_model_card and its helpers) and the push orchestration.        *)
(*                                                                         *)
(* A manifest (meta.json) is a mapping that always has "name" and may have *)
(* "lang", "license", "components" and "performance".  lang is a string,   *)
(* license a string held as a sequence of characters (so that replace()    *)
(* can be modelled), components a list of component names, performance a   *)
(* mapping from metric keys to numbers.  A text file is a record           *)
(* [exists, text] whose text is a sequence of lines.                       *)
(***************************************************************************)
EXTENDS Integers, Sequences, FiniteSets, TLC

VARIABLES
    repo_name,  \* first "-"-separated part of the wheel's file name
    meta,       \* meta.json in the repository directory
    readme,     \* README.md in the repository directory
    remote,     \* README.md at the head of the Hub repository
    metadata,   \* the metadata mapping built by the last synthesis
    exc,        \* exception raised by the last operation, "" when none
    op,         \* last operation: "init", "card" or "push"
    pushed,     \* the archive handed to the last push
    orig,       \* README text at the first synthesis since the last move-up
    blocks,     \* front-matter blocks prepended since then, newest first
    runs,       \* number of direct synthesis runs
    pushes,     \* number of push runs
    committed   \* number of commits push_to_hub made on the Hub repository

vars == <<repo_name, meta, readme, remote, metadata, exc, op, pushed,
          orig, blocks, runs, pushes, committed>>

(***************************************************************************)
(* Bounds                                                                  *)
(***************************************************************************)
MaxComponents == 3
MaxLicenseLen == 2
MaxMetric == 2
MaxRuns == 2
MaxPushes == 2

(***************************************************************************)
(* Program constants                                                       *)
(***************************************************************************)
token_classification_components == <<"ner", "tagger", "morphologizer">>
text_classification_components == <<"textcat", "textcat_multilabel">>

\* `x in list`
Contains(list, x) == \E i \in 1..Len(list) : list[i] = x

\* list.count(x)
Count(list, x) == Cardinality({i \in 1..Len(list) : list[i] = x})

NoFile == [exists |-> FALSE, text |-> <<>>]
File(lines) == [exists |-> TRUE, text |-> lines]

(***************************************************************************)
(* Helpers of the synthesis                                                *)
(***************************************************************************)
\* Variant: the value is stored without the emptiness test.
_insert_value_unchecked(md, name, value) == (name :> value) @@ md

\* _insert_value leaves the mapping alone when the value is "" (None does
\* not occur: the manifest's values are strings).
_insert_value(md, name, value) ==
    IF value = <<>> THEN md ELSE (name :> value) @@ md

\* _insert_values_as_list: a str is wrapped into a one-element list first,
\* an empty list leaves the mapping alone.
_insert_values_as_list(md, name, values, isStr) ==
    LET vs == IF isStr THEN <<values>> ELSE values
    IN IF Len(vs) = 0 THEN md ELSE (name :> vs) @@ md

_create_metric(name, t, value) == [name |-> name, type |-> t, value |-> value]

_create_p_r_f_list(precision, recall, f_score) ==
    << _create_metric("Precision", "precision", precision),
       _create_metric("Recall", "recall", recall),
       _create_metric("F Score", "f_score", f_score) >>

Task(name, metrics) ==
    [tasks |-> [name |-> name, type |-> "token-classification",
                metrics |-> metrics]]

\* The first key whose lookup raises KeyError in _create_model_index, ""
\* when every lookup succeeds.  Lookups happen in source order.
FirstMissing(data, keys) ==
    IF \A i \in 1..Len(keys) : keys[i] \in DOMAIN data THEN ""
    ELSE keys[CHOOSE i \in 1..Len(keys) :
                 /\ keys[i] \notin DOMAIN data
                 /\ \A j \in 1..(i-1) : keys[j] \in DOMAIN data]

IndexLookups(data) ==
    (IF "ents_p" \in DOMAIN data THEN <<"ents_p", "ents_r", "ents_f">> ELSE <<>>)
    \o (IF "tag_acc" \in DOMAIN data THEN <<"tag_acc">> ELSE <<>>)
    \o (IF "sents_p" \in DOMAIN data THEN <<"sents_p", "sents_r", "sents_f">> ELSE <<>>)
    \o (IF "dep_uas" \in DOMAIN data THEN <<"dep_uas">> ELSE <<>>)
    \o (IF "dep_las" \in DOMAIN data THEN <<"dep_uas">> ELSE <<>>)

IndexKeyError(data) == FirstMissing(data, IndexLookups(data))

\* Variant: the labeled entry reads the mapping's own dep_las.
LabeledValueOwn(data) == data["dep_las"]

\* The value looked up for the LABELED_DEPENDENCIES metric (line 141).
LabeledValue(data) == data["dep_uas"]

\* _create_model_index when no lookup raises.
_create_model_index(name, data) ==
    LET results ==
          (IF "ents_p" \in DOMAIN data
             THEN << Task("NER", _create_p_r_f_list(data["ents_p"],
                                   data["ents_r"], data["ents_f"])) >>
             ELSE <<>>)
          \o (IF "tag_acc" \in DOMAIN data
             THEN << Task("POS", << _create_metric("Accuracy", "accuracy",
                                       data["tag_acc"]) >>) >>
             ELSE <<>>)
          \o (IF "sents_p" \in DOMAIN data
             THEN << Task("SENTER", _create_p_r_f_list(data["sents_p"],
                                      data["sents_r"], data["sents_f"])) >>
             ELSE <<>>)
          \o (IF "dep_uas" \in DOMAIN data
             THEN << Task("UNLABELED_DEPENDENCIES",
                          << _create_metric("Accuracy", "accuracy",
                                            data["dep_uas"]) >>) >>
             ELSE <<>>)
          \o (IF "dep_las" \in DOMAIN data
             THEN << Task("LABELED_DEPENDENCIES",
                          << _create_metric("Accuracy", "accuracy",
                                            LabeledValue(data)) >>) >>
             ELSE <<>>)
    IN [name |-> name, results |-> results]

\* Variant: the language code is passed through without the "xx" case.
LangRaw(data) == data["lang"]

\* lang = data["lang"] if data["lang"] != "xx" else "multilingual"
Lang(data) == IF data["lang"] # "xx" THEN data["lang"] ELSE "multilingual"

\* Variant: the license is taken without replacing its spaces.
LicNoReplace(data) == IF "license" \in DOMAIN data THEN data["license"] ELSE <<>>

\* data.get("license", "").replace(" ", "-")
Lic(data) ==
    LET l == IF "license" \in DOMAIN data THEN data["license"] ELSE <<>>
    IN [i \in 1..Len(l) |-> IF l[i] = " " THEN "-" ELSE l[i]]

\* Variant: the loop appends without the "not in tags" tests.
TagStepNoDedup(tags, component) ==
    LET t1 == IF Contains(token_classification_components, component)
              THEN Append(tags, "token-classification") ELSE tags
    IN IF Contains(text_classification_components, component)
       THEN Append(t1, "text-classification") ELSE t1

\* One iteration of the loop over data["components"] (lines 158-167).
TagStep(tags, component) ==
    LET t1 == IF /\ Contains(token_classification_components, component)
                 /\ ~Contains(tags, "token-classification")
              THEN Append(tags, "token-classification") ELSE tags
    IN IF /\ Contains(text_classification_components, component)
          /\ ~Contains(t1, "text-classification")
       THEN Append(t1, "text-classification") ELSE t1

RECURSIVE TagLoop(_, _)
TagLoop(tags, components) ==
    IF components = <<>> THEN tags
    ELSE TagLoop(TagStep(tags, Head(components)), Tail(components))

\* Variant: the tags are appended class by class instead of in the order of
\* the first match.
TagsFixedOrder(data) ==
    <<"spacy">>
    \o (IF \E i \in 1..Len(data["components"]) :
              Contains(token_classification_components, data["components"][i])
        THEN <<"token-classification">> ELSE <<>>)
    \o (IF \E i \in 1..Len(data["components"]) :
              Contains(text_classification_components, data["components"][i])
        THEN <<"text-classification">> ELSE <<>>)

Tags(data) == TagLoop(<<"spacy">>, data["components"])

(***************************************************************************)
(* yaml.dump(metadata, sort_keys=False): block style, keys in insertion    *)
(* order, one line per scalar; a scalar that is empty, a lone "-" or that  *)
(* starts with the document marker is quoted.                              *)
(***************************************************************************)
RECURSIVE Join(_)
Join(chars) == IF chars = <<>> THEN "" ELSE Head(chars) \o Join(Tail(chars))

RECURSIVE Flatten(_)
Flatten(seqs) == IF seqs = <<>> THEN <<>> ELSE Head(seqs) \o Flatten(Tail(seqs))

Quote(str) == "'" \o str \o "'"

YamlStr(str) == IF str = "" THEN Quote(str) ELSE str

YamlChars(chars) ==
    IF \/ chars = <<>>
       \/ chars = <<"-">>
       \/ (Len(chars) >= 3 /\ \A i \in 1..3 : chars[i] = "-")
    THEN Quote(Join(chars)) ELSE Join(chars)

YamlItems(list) == [i \in 1..Len(list) |-> "- " \o YamlStr(list[i])]

YamlMetric(m) ==
    << "      - name: " \o m.name,
       "        type: " \o m.type,
       "        value: " \o ToString(m.value) >>

YamlTask(r) ==
    << "  - tasks:",
       "      name: " \o r.tasks.name,
       "      type: " \o r.tasks.type,
       "      metrics:" >>
    \o Flatten([i \in 1..Len(r.tasks.metrics) |-> YamlMetric(r.tasks.metrics[i])])

YamlIndex(idx) ==
    << "model-index:", "  name: " \o YamlStr(idx.name) >>
    \o (IF idx.results = <<>> THEN << "  results: []" >>
        ELSE << "  results:" >>
             \o Flatten([i \in 1..Len(idx.results) |-> YamlTask(idx.results[i])]))

YamlDump(md) ==
    (IF "tags" \in DOMAIN md THEN << "tags:" >> \o YamlItems(md["tags"]) ELSE <<>>)
    \o (IF "language" \in DOMAIN md
        THEN << "language:" >> \o YamlItems(md["language"]) ELSE <<>>)
    \o (IF "license" \in DOMAIN md
        THEN << "license: " \o YamlChars(md["license"]) >> ELSE <<>>)
    \o YamlIndex(md["model-index"])

\* metadata_section = f"---\n{metadata}---\n"
MetadataSection(md) == << "---" >> \o YamlDump(md) \o << "---" >>

(***************************************************************************)
(* _create_model_card                                                      *)
(***************************************************************************)
EmptyDict == [k \in {} |-> 0]
NoMetadata == [unbound |-> TRUE]

\* The key whose lookup raises KeyError before anything is written, "" when
\* the synthesis goes through (lines 154, 157, 172 and _create_model_index).
CardKeyError(data) ==
    IF "lang" \notin DOMAIN data THEN "lang"
    ELSE IF "components" \notin DOMAIN data THEN "components"
    ELSE IF "performance" \notin DOMAIN data THEN "performance"
    ELSE IndexKeyError(data["performance"])

\* Lines 169-172.
Metadata(name, data) ==
    LET m1 == _insert_values_as_list(EmptyDict, "tags", Tags(data), FALSE)
        m2 == _insert_values_as_list(m1, "language", Lang(data), TRUE)
        m3 == _insert_value(m2, "license", Lic(data))
    IN ("model-index" :> _create_model_index(name, data["performance"])) @@ m3

\* readme = "" unless README.md is a file (lines 178-181)
ReadText(file) == IF file.exists THEN file.text ELSE <<>>

\* Variant: only the section is written, the text read before is dropped.
WriteCardOverwrite(md, file) == File(MetadataSection(md))

\* Lines 183-185: the section, then the text read before.
WriteCard(md, file) == File(MetadataSection(md) \o ReadText(file))

\* Variant: README.md is opened for writing before the manifest is looked
\* up, so a KeyError leaves it truncated.
_create_model_card_truncating(name, data, file) ==
    IF CardKeyError(data) # ""
    THEN [exc |-> "KeyError: " \o CardKeyError(data),
          metadata |-> NoMetadata, file |-> File(<<>>)]
    ELSE [exc |-> "", metadata |-> Metadata(name, data),
          file |-> WriteCard(Metadata(name, data), file)]

\* The whole function: the exception raised ("" when none), the metadata
\* built and README.md as it is left.
_create_model_card(name, data, file) ==
    IF CardKeyError(data) # ""
    THEN [exc |-> "KeyError: " \o CardKeyError(data),
          metadata |-> NoMetadata, file |-> file]
    ELSE [exc |-> "", metadata |-> Metadata(name, data),
          file |-> WriteCard(Metadata(name, data), file)]

(***************************************************************************)
(* push: the steps that touch README.md and meta.json                      *)
(***************************************************************************)
\* Repository(clone_from=...) and git_pull (lines 206-207): the working
\* copy holds the head of the Hub repository.
Clone(hub) == hub

\* Variant: a file already in the working copy is kept.
MoveUpKeep(dst, src) == IF dst.exists THEN dst ELSE src

\* Lines 220-226 for README.md: a file of the archive's versioned directory
\* replaces the file of the same name in the working copy; a name the
\* archive does not list is not visited.
MoveUp(dst, src) == IF src.exists THEN src ELSE dst

(***************************************************************************)
(* Inputs                                                                  *)
(***************************************************************************)
SeqsUpTo(S, n) == UNION {[1..k -> S] : k \in 0..n}

RepoNames == {"en_pipeline", "xx_pipeline"}
Langs == {"xx", "en", ""}
LicenseChars == {"a", " ", "-"}
Licenses == SeqsUpTo(LicenseChars, MaxLicenseLen)
ComponentNames ==
    {"ner", "tagger", "morphologizer", "textcat", "textcat_multilabel", "parser"}
ComponentLists == SeqsUpTo(ComponentNames, MaxComponents)
PerfKeys == {"ents_p", "ents_r", "ents_f", "tag_acc", "sents_p", "sents_r",
             "sents_f", "dep_uas", "dep_las"}
Metrics == 1..MaxMetric

\* Performance mappings over every set of keys; the dependency accuracies
\* take their values independently, the other metrics of one mapping share
\* a value.
Performances ==
    {[k \in S |-> IF k = "dep_uas" THEN u ELSE IF k = "dep_las" THEN l ELSE p] :
        S \in SUBSET PerfKeys, u \in Metrics, l \in Metrics, p \in Metrics}

\* An optional key is given as a sequence of zero or one value.
Optional(S) == {<<>>} \cup {<<x>> : x \in S}
Field(key, opt) == IF opt = <<>> THEN EmptyDict ELSE key :> opt[1]

Manifest(lang, lic, components, performance) ==
    ("name" :> "pipeline") @@ Field("lang", lang) @@ Field("license", lic)
    @@ Field("components", components) @@ Field("performance", performance)

\* Manifests that vary the component list, the performance mapping, and the
\* presence and value of every key.
TagManifests ==
    {Manifest(<<"en">>, <<>>, <<c>>, <<EmptyDict>>) : c \in ComponentLists}
IndexManifests ==
    {Manifest(<<"en">>, <<>>, <<(<<"ner">>)>>, <<p>>) : p \in Performances}
CardManifests ==
    {Manifest(l, lic, c, p) :
        l \in Optional(Langs), lic \in Optional(Licenses),
        c \in Optional({<<>>, <<"textcat", "ner">>}),
        p \in Optional({EmptyDict, [tag_acc |-> 1], [dep_las |-> 1]})}
Manifests == TagManifests \cup IndexManifests \cup CardManifests

Readmes == {NoFile, File(<<"# pipeline">>), File(<<"---", "old", "---", "# pipeline">>)}

\* The wheels handed to push: meta.json and README.md of the versioned
\* directory.
ArchiveManifests ==
    { Manifest(<<"en">>, <<(<<"a", " ", "a">>)>>, <<(<<"ner">>)>>, <<[tag_acc |-> 1]>>),
      Manifest(<<"xx">>, <<>>, <<(<<"textcat">>)>>, <<EmptyDict>>),
      Manifest(<<"en">>, <<>>, <<(<<"ner">>)>>, <<>>) }
ArchiveReadmes == {NoFile, File(<<"# package 1">>), File(<<"# package 2">>)}
Archives == [meta : ArchiveManifests, readme : ArchiveReadmes]
NoArchive == [meta |-> EmptyDict, readme |-> NoFile]

(***************************************************************************)
(* State machine                                                           *)
(***************************************************************************)
\* The directories a synthesis starts from: every README.md and repository
\* name with the manifests that vary every key, one README.md and name with
\* the manifests that vary the component list or the performance mapping.
Inputs ==
    [repo_name : RepoNames, meta : CardManifests, readme : Readmes]
    \cup [repo_name : {"en_pipeline"}, meta : TagManifests \cup IndexManifests,
          readme : {File(<<"# pipeline">>)}]

Init ==
    /\ \E i \in Inputs :
          /\ repo_name = i.repo_name
          /\ meta = i.meta
          /\ readme = i.readme
    /\ remote = NoFile
    /\ metadata = NoMetadata
    /\ exc = ""
    /\ op = "init"
    /\ pushed = NoArchive
    /\ orig = ReadText(readme)
    /\ blocks = <<>>
    /\ runs = 0
    /\ pushes = 0
    /\ committed = 0

\* A call of _create_model_card(repo_name, repo_dir).
CreateModelCard ==
    /\ runs < MaxRuns
    /\ LET r == _create_model_card(repo_name, meta, readme)
       IN /\ exc' = r.exc
          /\ metadata' = r.metadata
          /\ readme' = r.file
          /\ blocks' = IF r.exc = "" THEN <<MetadataSection(r.metadata)>> \o blocks
                       ELSE blocks
    /\ op' = "card"
    /\ runs' = runs + 1
    /\ UNCHANGED <<repo_name, meta, remote, pushed, orig, pushes, committed>>

\* A call of push(whl_path) with the wheel a; an exception of the synthesis
\* ends the run before push_to_hub.
Push(a) ==
    /\ pushes < MaxPushes
    /\ LET moved == MoveUp(Clone(remote), a.readme)
           r == _create_model_card(repo_name, a.meta, moved)
       IN /\ exc' = r.exc
          /\ metadata' = r.metadata
          /\ readme' = r.file
          /\ meta' = a.meta
          /\ remote' = IF r.exc = "" THEN r.file ELSE remote
          /\ committed' = IF r.exc = "" THEN committed + 1 ELSE committed
          /\ orig' = ReadText(moved)
          /\ blocks' = IF r.exc = "" THEN <<MetadataSection(r.metadata)>> ELSE <<>>
    /\ op' = "push"
    /\ pushed' = a
    /\ pushes' = pushes + 1
    /\ UNCHANGED <<repo_name, runs>>

Next ==
    \/ CreateModelCard
    \/ \E a \in Archives : Push(a)

Spec == Init /\ [][Next]_vars

(***************************************************************************)
(* Properties                                                              *)
(***************************************************************************)
\* A synthesis has run and raised nothing: metadata is the card it built
\* from meta.
Succeeded == op # "init" /\ exc = ""

TokenClass == {"ner", "tagger", "morphologizer"}
TextClass == {"textcat", "textcat_multilabel"}
HasClass(components, class) == \E i \in 1..Len(components) : components[i] \in class
IndexOf(list, x) == CHOOSE i \in 1..Len(list) : list[i] = x
FirstOf(components, class) ==
    CHOOSE i \in 1..Len(components) :
        /\ components[i] \in class
        /\ \A j \in 1..(i-1) : components[j] \notin class

\* C1: the tags of a synthesized card contain "spacy", contain
\* "token-classification" exactly when some component is ner, tagger or
\* morphologizer, contain "text-classification" exactly when some component
\* is textcat or textcat_multilabel, and hold each of the three at most once.
C1_Tags ==
    Succeeded =>
        LET t == metadata["tags"]
            c == meta["components"]
        IN /\ Contains(t, "spacy")
           /\ Contains(t, "token-classification") <=> HasClass(c, TokenClass)
           /\ Contains(t, "text-classification") <=> HasClass(c, TextClass)
           /\ \A x \in {"spacy", "token-classification", "text-classification"} :
                 Count(t, x) <= 1

\* Reached: a card built from a list that repeats a qualifying component
\* and holds a component of each class.
C1_Witness ==
    /\ Succeeded
    /\ Count(meta["components"], "ner") >= 2
    /\ HasClass(meta["components"], TextClass)
    /\ Len(metadata["tags"]) = 3

\* C2 as stated: with a component of each class in the list, both tags
\* occur exactly once and "token-classification" comes before
\* "text-classification".
C2_Original ==
    (Succeeded /\ HasClass(meta["components"], TokenClass)
               /\ HasClass(meta["components"], TextClass)) =>
        LET t == metadata["tags"]
        IN /\ Count(t, "token-classification") = 1
           /\ Count(t, "text-classification") = 1
           /\ IndexOf(t, "token-classification") < IndexOf(t, "text-classification")

\* C2 amended: with a component of each class in the list, both tags occur
\* exactly once, and "token-classification" comes before
\* "text-classification" exactly when the first token-classification
\* component comes before the first text-classification component.
C2_FirstMatchOrder ==
    (Succeeded /\ HasClass(meta["components"], TokenClass)
               /\ HasClass(meta["components"], TextClass)) =>
        LET t == metadata["tags"]
            c == meta["components"]
        IN /\ Count(t, "token-classification") = 1
           /\ Count(t, "text-classification") = 1
           /\ (IndexOf(t, "token-classification") < IndexOf(t, "text-classification"))
                <=> (FirstOf(c, TokenClass) < FirstOf(c, TextClass))

\* Reached: a card whose list names a text classifier before an entity
\* recognizer, and whose tags follow that order.
C2_Witness ==
    /\ Succeeded
    /\ HasClass(meta["components"], TokenClass)
    /\ HasClass(meta["components"], TextClass)
    /\ FirstOf(meta["components"], TextClass) < FirstOf(meta["components"], TokenClass)
    /\ metadata["tags"] = <<"spacy", "text-classification", "token-classification">>

RequiredKeys == {"lang", "components", "performance"}
HasRequired(data) == RequiredKeys \subseteq DOMAIN data

\* The metric groups of the results index, in the order of the entries:
\* the name of the entry and the keys that make up the group.
Groups ==
    << [name |-> "NER", keys |-> {"ents_p", "ents_r", "ents_f"}],
       [name |-> "POS", keys |-> {"tag_acc"}],
       [name |-> "SENTER", keys |-> {"sents_p", "sents_r", "sents_f"}],
       [name |-> "UNLABELED_DEPENDENCIES", keys |-> {"dep_uas"}],
       [name |-> "LABELED_DEPENDENCIES", keys |-> {"dep_las"}] >>

\* Every group of the mapping is there as a whole or not at all.
WholeGroups(perf) ==
    \A i \in 1..Len(Groups) :
        Groups[i].keys \subseteq DOMAIN perf \/ Groups[i].keys \cap DOMAIN perf = {}

RECURSIVE PresentFrom(_, _)
PresentFrom(perf, i) ==
    IF i > Len(Groups) THEN <<>>
    ELSE (IF Groups[i].keys \subseteq DOMAIN perf THEN <<Groups[i].name>> ELSE <<>>)
         \o PresentFrom(perf, i + 1)

\* The names of the groups present in the mapping, in the fixed order.
PresentGroups(perf) == PresentFrom(perf, 1)

ResultNames(idx) == [i \in 1..Len(idx.results) |-> idx.results[i].tasks.name]

\* C3 as stated: for every performance mapping (of a manifest with the
\* required keys, each metric group whole or absent) the index is built and
\* its entries are exactly the present groups, one each, in the fixed order
\* NER, POS, SENTER, UNLABELED_DEPENDENCIES, LABELED_DEPENDENCIES; a mapping
\* without metrics gives an empty results sequence.
C3_Original ==
    (op # "init" /\ HasRequired(meta) /\ WholeGroups(meta["performance"])) =>
        /\ exc = ""
        /\ ResultNames(metadata["model-index"]) = PresentGroups(meta["performance"])

\* C9: when the performance mapping has dep_las and the index is built, the
\* mapping has dep_uas too and the LABELED_DEPENDENCIES entry, the last of
\* the results, carries the single metric Accuracy whose value is the
\* mapping's dep_uas.
C9_LabeledUsesUnlabeled ==
    (Succeeded /\ "dep_las" \in DOMAIN meta["performance"]) =>
        LET perf == meta["performance"]
            res == metadata["model-index"].results
        IN /\ "dep_uas" \in DOMAIN perf
           /\ Len(res) >= 1
           /\ res[Len(res)].tasks.name = "LABELED_DEPENDENCIES"
           /\ Count(ResultNames(metadata["model-index"]), "LABELED_DEPENDENCIES") = 1
           /\ res[Len(res)].tasks.metrics =
                << [name |-> "Accuracy", type |-> "accuracy", value |-> perf["dep_uas"]] >>

\* Reached: an index built from a mapping whose dep_las differs from its
\* dep_uas.
C9_Witness ==
    /\ Succeeded
    /\ {"dep_las", "dep_uas"} \subseteq DOMAIN meta["performance"]
    /\ meta["performance"]["dep_las"] # meta["performance"]["dep_uas"]
    /\ Len(metadata["model-index"].results) >= 2

\* The keys that decide whether an entry is appended to the results.
GroupKeys == {"ents_p", "tag_acc", "sents_p", "dep_uas", "dep_las"}

\* C4 as stated: no field of an emitted card (tags, language, license,
\* model-index, its name and its results) is an empty string or an empty
\* list.
C4_Original ==
    Succeeded =>
        /\ \A k \in DOMAIN metadata \cap {"tags", "language", "license"} :
              Len(metadata[k]) > 0
        /\ "model-index" \in DOMAIN metadata =>
              /\ metadata["model-index"].name # ""
              /\ metadata["model-index"].results # <<>>
              /\ ~Contains(YamlDump(metadata), "  results: []")

\* C4 amended: the top-level fields tags, language and license of an emitted
\* card are never an empty string or an empty list, and license is left out
\* when the manifest's license is absent or empty; model-index is always
\* emitted, and its results are emitted as an empty list when the
\* performance mapping has none of the keys that start a metric group.
C4_TopLevelOmitted ==
    Succeeded =>
        /\ \A k \in DOMAIN metadata \cap {"tags", "language", "license"} :
              Len(metadata[k]) > 0
        /\ ("license" \notin DOMAIN meta \/ meta["license"] = <<>>)
              => (/\ "license" \notin DOMAIN metadata
                  /\ \A i \in 1..Len(YamlDump(metadata)) :
                        YamlDump(metadata)[i] # "license: ''")
        /\ "model-index" \in DOMAIN metadata
        /\ (DOMAIN meta["performance"] \cap GroupKeys = {})
              => (/\ metadata["model-index"].results = <<>>
                  /\ Contains(YamlDump(metadata), "  results: []"))

\* Reached: a card built from a manifest with an empty license string and
\* an empty performance mapping.
C4_Witness ==
    /\ Succeeded
    /\ "license" \in DOMAIN meta
    /\ meta["license"] = <<>>
    /\ meta["performance"] = EmptyDict
    /\ metadata["model-index"].results = <<>>

\* C5: after n >= 1 successful syntheses on a document whose content was C
\* (empty when there was no document), the document exists and is the n
\* front-matter blocks, newest first, followed by C; every block opens and
\* closes with a "---" line and has no such line in between.
C5_Prepends ==
    blocks # <<>> =>
        /\ readme.exists
        /\ readme.text = Flatten(blocks) \o orig
        /\ \A b \in 1..Len(blocks) :
              /\ Len(blocks[b]) >= 2
              /\ \A i \in 1..Len(blocks[b]) :
                    (blocks[b][i] = "---") <=> (i \in {1, Len(blocks[b])})

\* Reached: a second direct synthesis on a document that had content.
C5_Witness ==
    /\ op = "card"
    /\ exc = ""
    /\ Len(blocks) = 2
    /\ orig # <<>>
    /\ Len(readme.text) = Len(blocks[1]) + Len(blocks[2]) + Len(orig)

MissingFieldErrors == {"KeyError: lang", "KeyError: components", "KeyError: performance"}

\* C6: a synthesis on a manifest that lacks lang, components or performance
\* raises the missing-key error and leaves README.md as it was, absent or
\* with the same content.
C6_MissingField ==
    [][(runs' = runs + 1 /\ ~HasRequired(meta)) =>
          (exc' \in MissingFieldErrors /\ readme' = readme)]_vars

\* Reached: a synthesis that failed on a missing key with README.md in
\* place.
C6_Witness ==
    /\ op = "card"
    /\ exc \in MissingFieldErrors
    /\ readme.exists
    /\ readme.text # <<>>

HasLicense(data) == "license" \in DOMAIN data /\ data["license"] # <<>>

\* The manifest has what the synthesis looks up.
WellFormed(data) ==
    /\ HasRequired(data)
    /\ WholeGroups(data["performance"])
    /\ "dep_las" \in DOMAIN data["performance"] => "dep_uas" \in DOMAIN data["performance"]

\* C7: the card has a license exactly when the manifest's license is a
\* non-empty string, and it is then that string with every space replaced
\* by a hyphen; an absent or empty license does not make the synthesis
\* fail, and the card then has no license key.
C7_License ==
    op # "init" =>
        /\ (~HasLicense(meta) /\ WellFormed(meta)) => exc = ""
        /\ exc = "" =>
              /\ "license" \in DOMAIN metadata <=> HasLicense(meta)
              /\ HasLicense(meta) =>
                    /\ Len(metadata["license"]) = Len(meta["license"])
                    /\ \A i \in 1..Len(meta["license"]) :
                          metadata["license"][i] =
                             (IF meta["license"][i] = " " THEN "-" ELSE meta["license"][i])

\* Reached: a card built from a license with a space in it.
C7_Witness ==
    /\ Succeeded
    /\ HasLicense(meta)
    /\ Contains(meta["license"], " ")
    /\ "license" \in DOMAIN metadata
    /\ ~Contains(metadata["license"], " ")

\* C8: the language of a synthesized card is always there and is a list of
\* one string, "multilingual" when the manifest's lang is "xx" and the
\* manifest's lang otherwise.
C8_Language ==
    Succeeded =>
        /\ "language" \in DOMAIN metadata
        /\ Len(metadata["language"]) = 1
        /\ metadata["language"][1] =
              (IF meta["lang"] = "xx" THEN "multilingual" ELSE meta["lang"])

\* Reached: a card built from a manifest whose lang is "xx".
C8_Witness ==
    /\ Succeeded
    /\ meta["lang"] = "xx"
    /\ metadata["language"] = <<"multilingual">>

\* C10: a successful push of an archive that has a README.md commits a
\* README.md that is the one block synthesized in that push followed by the
\* archive's README, whatever earlier pushes left in the repository.
C10_NoAccumulation ==
    (op = "push" /\ exc = "" /\ pushed.readme.exists) =>
        /\ remote.exists
        /\ remote.text = <<"---">> \o YamlDump(metadata) \o <<"---">> \o pushed.readme.text
        /\ Count(remote.text, "---") = 2

\* Reached: a second commit, made by a push of an archive with a README.md.
C10_Witness ==
    /\ op = "push"
    /\ exc = ""
    /\ pushed.readme.exists
    /\ committed = 2
    /\ Count(remote.text, "---") = 2

====
